---- MODULE Spec2Model ----
(***************************************************************************)
(* MovieMate chat page (src/src/app.py): the file-mediated request/response *)
(* channel to the Scala answering engine (communicate_with_scala) and the   *)
(* conversation store handled by the chat page of main().                   *)
(*                                                                          *)
(* Text is a sequence of characters over a small alphabet: a question or an *)
(* answer is one character, " " and "\n" are whitespace.  Every file system *)
(* call of the code is one step; several browser sessions run the script    *)
(* concurrently, the engine is a separate process.                          *)
(***************************************************************************)
EXTENDS Naturals, Sequences, FiniteSets, TLC

\* ---------------------------------------------------------------- bounds
MaxRuns == 2                      \* script runs started, over all sessions

Sessions == {"s1", "s2"}          \* browser sessions (st.session_state each)
Questions == {"q1", "q2"}         \* what the user may type
NoQuestion == ""                  \* st.chat_input returned None / ""

\* ------------------------------------------------------- program constants
max_retries == 3
retry_delay == 2
Default == "chathistory_0.txt"
Other == "chathistory_1.txt"      \* some other conversation file
LogNames == {Default, Other}
Fallback == <<"I'm having trouble processing that. Could you try again?">>
Whitespace == {" ", "\n"}
OldLine == <<"q0", "\n">>         \* a question saved by an earlier process

VARIABLES
    \* conversations/ directory
    dirExists,        \* os.path.exists('conversations/')
    ptrExists,        \* conversations/currentchat.txt exists
    pointer,          \* its contents
    files,            \* names of the existing conversation files
    logs,             \* their contents, <<>> for a file that does not exist
    \* src/main/connection/
    req,              \* pyinput.txt
    resp,             \* scalaoutput.txt
    \* the engine process
    reqFresh,         \* pyinput.txt was written since the engine last read it
    engine,           \* the question the engine is answering, "" when idle
    \* one script run per session at a time
    pc,               \* position of the session's run
    user_question, current_chat,
    attempt, scala_output, response,
    chat_memory,      \* st.session_state.chat_memory
    errors,           \* st.error calls of the current run
    \* history
    nruns,            \* runs started so far
    sendOk,           \* the run's write of pyinput.txt succeeded
    waits,            \* time.sleep calls of the run's request
    elapsed,          \* time slept in the run's request
    polls,            \* open/read calls on scalaoutput.txt in the run's request
    got,              \* the first non-empty text such a read returned
    readOk,           \* some such read succeeded (did not raise)
    mem0,             \* chat_memory at the start of the run
    dir0,             \* the directory existed before the first run
    saveFailed,       \* some append to a conversation file has failed
    initDone,         \* some run has completed the startup block
    afterInit,        \* the run started when initDone held
    consumed,         \* a reply was consumed since the engine last wrote
    wn,               \* writes of scalaoutput.txt by the engine so far
    src,              \* the engine write whose text the run read and is clearing
    delivered,        \* per engine write, the calls that returned its text
    erased            \* engine writes erased by the clear of another text

store == <<dirExists, ptrExists, pointer, files, logs>>
channel == <<req, resp>>
engineVars == <<reqFresh, engine>>
locals == <<user_question, current_chat, attempt, scala_output, response,
            errors>>
history == <<nruns, sendOk, waits, elapsed, polls, got, readOk, mem0, dir0, saveFailed,
             initDone, afterInit, consumed, wn, src, delivered, erased>>
vars == <<store, channel, engineVars, pc, locals, chat_memory, history>>

\* ------------------------------------------------------------ text helpers
RECURSIVE LStrip(_)
LStrip(s) == IF s # <<>> /\ Head(s) \in Whitespace THEN LStrip(Tail(s)) ELSE s

RECURSIVE RStrip(_)
RStrip(s) ==
    IF s # <<>> /\ s[Len(s)] \in Whitespace
    THEN RStrip(SubSeq(s, 1, Len(s) - 1)) ELSE s

Strip(s) == RStrip(LStrip(s))

RECURSIVE ReadLine(_)
ReadLine(s) ==
    IF s = <<>> THEN <<>>
    ELSE IF Head(s) = "\n" THEN <<"\n">>
    ELSE <<Head(s)>> \o ReadLine(Tail(s))

Line(q) == <<q, "\n">>

IsPrefix(a, b) == Len(a) <= Len(b) /\ SubSeq(b, 1, Len(a)) = a

\* conversations_dir + current_chat names a conversation file
ValidName(name) == Len(name) = 1 /\ name[1] \in LogNames

\* ------------------------------------------------------------- the engine
\* The engine's answer to question q, before the engine's own formatting.
Ans(q) == IF q = "q1" THEN "a1" ELSE "a2"

\* What the engine may put in scalaoutput.txt for q: the answer followed by
\* a line terminator, or a blank line.
EngineOutputs(q) == {<<Ans(q), "\n">>, <<"\n">>}

\* The question the engine finds in pyinput.txt, "" if there is none.
ParseRequest(text) ==
    IF Len(Strip(text)) = 1 /\ Strip(text)[1] \in Questions
    THEN Strip(text)[1] ELSE ""

\* ------------------------------------------------------------------- Init
InitialStores ==
    {[dir |-> FALSE, ptr |-> FALSE, pointer |-> <<>>, files |-> {}]}
    \cup
    {[dir |-> TRUE, ptr |-> p, pointer |-> c, files |-> fs] :
        p \in BOOLEAN, c \in {<<>>, <<Default>>, <<Other, "\n">>},
        fs \in SUBSET LogNames}

StoreOk(st) ==
    st.dir => (st.ptr <=> st.pointer # <<>>)

Init ==
    /\ \E st \in {x \in InitialStores : StoreOk(x)} :
         /\ dirExists = st.dir
         /\ ptrExists = st.ptr
         /\ pointer = st.pointer
         /\ files = st.files
         /\ logs = [n \in LogNames |-> IF n \in st.files THEN OldLine ELSE <<>>]
         /\ dir0 = st.dir
    /\ saveFailed = FALSE
    /\ req = <<>>
    /\ resp = <<>>
    /\ reqFresh = FALSE
    /\ engine = ""
    /\ pc = [s \in Sessions |-> "idle"]
    /\ user_question = [s \in Sessions |-> NoQuestion]
    /\ current_chat = [s \in Sessions |-> <<>>]
    /\ attempt = [s \in Sessions |-> 0]
    /\ scala_output = [s \in Sessions |-> <<>>]
    /\ response = [s \in Sessions |-> <<>>]
    /\ chat_memory = [s \in Sessions |-> <<>>]
    /\ errors = [s \in Sessions |-> <<>>]
    /\ nruns = 0
    /\ sendOk = [s \in Sessions |-> FALSE]
    /\ waits = [s \in Sessions |-> 0]
    /\ elapsed = [s \in Sessions |-> 0]
    /\ polls = [s \in Sessions |-> 0]
    /\ got = [s \in Sessions |-> <<>>]
    /\ readOk = [s \in Sessions |-> FALSE]
    /\ mem0 = [s \in Sessions |-> <<>>]
    /\ initDone = FALSE
    /\ afterInit = [s \in Sessions |-> FALSE]
    /\ consumed = FALSE
    /\ wn = 0
    /\ src = [s \in Sessions |-> 0]
    /\ delivered = [w \in 1..MaxRuns |-> 0]
    /\ erased = {}

\* A run that ended with an uncaught exception stays where it was raised.
Raised == {"raised_makedirs", "raised_save"}

Running(s) == pc[s] \notin {"idle"} \cup Raised

\* The script's locals and the run's history are gone when the run ends.
EndRun(s) ==
    /\ user_question' = [user_question EXCEPT ![s] = NoQuestion]
    /\ current_chat' = [current_chat EXCEPT ![s] = <<>>]
    /\ attempt' = [attempt EXCEPT ![s] = 0]
    /\ scala_output' = [scala_output EXCEPT ![s] = <<>>]
    /\ response' = [response EXCEPT ![s] = <<>>]
    /\ errors' = [errors EXCEPT ![s] = <<>>]
    /\ sendOk' = [sendOk EXCEPT ![s] = FALSE]
    /\ waits' = [waits EXCEPT ![s] = 0]
    /\ elapsed' = [elapsed EXCEPT ![s] = 0]
    /\ polls' = [polls EXCEPT ![s] = 0]
    /\ got' = [got EXCEPT ![s] = <<>>]
    /\ readOk' = [readOk EXCEPT ![s] = FALSE]
    /\ src' = [src EXCEPT ![s] = 0]
    /\ mem0' = [mem0 EXCEPT ![s] = <<>>]
    /\ afterInit' = [afterInit EXCEPT ![s] = FALSE]

\* ------------------------------------------- main(): the chat page's run
\* A script run starts: the page is loaded or the user submits a question.
StartRun(s, q) ==
    /\ ~Running(s)
    /\ nruns < MaxRuns
    /\ nruns' = nruns + 1
    /\ pc' = [pc EXCEPT ![s] = "chk_dir"]
    /\ user_question' = [user_question EXCEPT ![s] = q]
    /\ current_chat' = [current_chat EXCEPT ![s] = <<>>]
    /\ attempt' = [attempt EXCEPT ![s] = 0]
    /\ scala_output' = [scala_output EXCEPT ![s] = <<>>]
    /\ response' = [response EXCEPT ![s] = <<>>]
    /\ errors' = [errors EXCEPT ![s] = <<>>]
    /\ sendOk' = [sendOk EXCEPT ![s] = FALSE]
    /\ waits' = [waits EXCEPT ![s] = 0]
    /\ elapsed' = [elapsed EXCEPT ![s] = 0]
    /\ polls' = [polls EXCEPT ![s] = 0]
    /\ got' = [got EXCEPT ![s] = <<>>]
    /\ readOk' = [readOk EXCEPT ![s] = FALSE]
    /\ src' = [src EXCEPT ![s] = 0]
    /\ mem0' = [mem0 EXCEPT ![s] = chat_memory[s]]
    /\ afterInit' = [afterInit EXCEPT ![s] = initDone]
    /\ UNCHANGED <<store, channel, engineVars, chat_memory, dir0, saveFailed, initDone,
                   consumed, wn, delivered, erased>>

\* if not os.path.exists(conversations_dir)
CheckDir(s) ==
    /\ pc[s] = "chk_dir"
    /\ pc' = [pc EXCEPT ![s] = IF dirExists THEN "chk_ptr" ELSE "mk_dir"]
    /\ UNCHANGED <<store, channel, engineVars, locals, chat_memory, history>>

\* os.makedirs(conversations_dir): FileExistsError if another run made it
MakeDirs(s) ==
    /\ pc[s] = "mk_dir"
    /\ dirExists' = TRUE
    /\ IF dirExists
       THEN /\ pc' = [pc EXCEPT ![s] = "raised_makedirs"]
            /\ EndRun(s)
       ELSE /\ pc' = [pc EXCEPT ![s] = "chk_ptr"]
            /\ UNCHANGED <<locals, sendOk, waits, elapsed, polls, got, readOk, mem0,
                           afterInit, src>>
    /\ UNCHANGED <<ptrExists, pointer, files, logs, channel, engineVars,
                   chat_memory, nruns, dir0, saveFailed, initDone, consumed, wn,
                   delivered, erased>>

\* if not os.path.exists(conversations_dir + 'currentchat.txt')
CheckPointer(s) ==
    /\ pc[s] = "chk_ptr"
    /\ pc' = [pc EXCEPT ![s] = IF ptrExists THEN "list" ELSE "mk_ptr"]
    /\ UNCHANGED <<store, channel, engineVars, locals, chat_memory, history>>

\* open(conversations_dir + 'currentchat.txt', 'w'): created or truncated
OpenPointer(s) ==
    /\ pc[s] = "mk_ptr"
    /\ ptrExists' = TRUE
    /\ pointer' = <<>>
    /\ pc' = [pc EXCEPT ![s] = "wr_ptr"]
    /\ UNCHANGED <<dirExists, files, logs, channel, engineVars, locals,
                   chat_memory, history>>

\* file.write('chathistory_0.txt'), flushed when the with block closes
WritePointer(s) ==
    /\ pc[s] = "wr_ptr"
    /\ pointer' = <<Default>>
    /\ pc' = [pc EXCEPT ![s] = "list"]
    /\ UNCHANGED <<dirExists, ptrExists, files, logs, channel, engineVars,
                   locals, chat_memory, history>>

\* A slip that would create the first conversation file on every run.
NoFilesListed_Always(fs) == TRUE

\* len(conversation_files) == 0
NoFilesListed(fs) == fs = {}

\* list_files_in_folder, minus 'currentchat.txt'
ListFiles(s) ==
    /\ pc[s] = "list"
    /\ pc' = [pc EXCEPT ![s] = IF NoFilesListed(files) THEN "mk_log" ELSE "rd_ptr"]
    /\ UNCHANGED <<store, channel, engineVars, locals, chat_memory, history>>

\* A slip that would name the first conversation file differently from the
\* name written to currentchat.txt.
FirstLog_Other == Other

\* 'chathistory_0.txt' of the first conversation file
FirstLog == Default

\* open(conversations_dir + 'chathistory_0.txt', 'w'): created or truncated
CreateFirstLog(s) ==
    /\ pc[s] = "mk_log"
    /\ files' = files \cup {FirstLog}
    /\ logs' = [logs EXCEPT ![FirstLog] = <<>>]
    /\ pc' = [pc EXCEPT ![s] = "rd_ptr"]
    /\ UNCHANGED <<dirExists, ptrExists, pointer, channel, engineVars,
                   locals, chat_memory, history>>

\* current_chat = file.readline().strip(); then `if user_question:`
\* (currentchat.txt exists by now: nothing ever removes it)
ReadPointer(s) ==
    /\ pc[s] = "rd_ptr"
    /\ initDone' = TRUE
    /\ IF user_question[s] = NoQuestion
       THEN /\ pc' = [pc EXCEPT ![s] = "idle"]
            /\ EndRun(s)
       ELSE /\ pc' = [pc EXCEPT ![s] = "send"]
            /\ current_chat' = [current_chat EXCEPT ![s] = Strip(ReadLine(pointer))]
            /\ UNCHANGED <<user_question, attempt, scala_output, response,
                           errors, sendOk, waits, elapsed, polls, got, readOk, mem0,
                           afterInit, src>>
    /\ UNCHANGED <<store, channel, engineVars, chat_memory, nruns, dir0, saveFailed,
                   consumed, wn, delivered, erased>>

\* ------------------------------------------------- communicate_with_scala
\* A slip that would poll again after an empty read, whatever the attempt.
MoreAttempts_Unbounded(a) == TRUE

\* for attempt in range(max_retries): another iteration follows attempt a
MoreAttempts(a) == a + 1 < max_retries

\* if attempt == max_retries - 1
LastAttempt(a) == a = max_retries - 1

\* A slip that would add the request after what pyinput.txt holds (mode 'a').
RequestText_Appended(q) == req \o Line(q)

\* pyinput.txt after open(input_file, 'w') and write(user_input + '\n')
RequestText(q) == Line(q)

\* A slip that would enter the poll loop after a failed write of the request.
AfterSendFailed_Polls == "sleep"

\* except Exception as e: (the outer handler) returns, the loop is skipped
AfterSendFailed == "returned"

\* open(input_file, 'w'); file.write(user_input + '\n').  A failed write may
\* leave the file as it was or truncated; the outer handler shows the error
\* and returns the fallback.
Send(s) ==
    /\ pc[s] = "send"
    /\ \/ /\ req' = RequestText(user_question[s])
          /\ reqFresh' = TRUE
          /\ sendOk' = [sendOk EXCEPT ![s] = TRUE]
          /\ pc' = [pc EXCEPT ![s] = "sleep"]
          /\ UNCHANGED <<response, errors>>
       \/ /\ req' \in {req, <<>>}
          /\ UNCHANGED <<reqFresh, sendOk>>
          /\ errors' = [errors EXCEPT ![s] = Append(@, "Error communicating with backend")]
          /\ response' = [response EXCEPT ![s] = Fallback]
          /\ pc' = [pc EXCEPT ![s] = AfterSendFailed]
    /\ attempt' = [attempt EXCEPT ![s] = 0]
    /\ UNCHANGED <<store, resp, engine, user_question, current_chat,
                   scala_output, chat_memory, nruns, waits, elapsed, polls,
                   got, readOk, src, mem0, dir0, saveFailed, initDone, afterInit,
                   consumed, wn, delivered, erased>>

\* time.sleep(retry_delay)
Sleep(s) ==
    /\ pc[s] = "sleep"
    /\ waits' = [waits EXCEPT ![s] = @ + 1]
    /\ elapsed' = [elapsed EXCEPT ![s] = @ + retry_delay]
    /\ pc' = [pc EXCEPT ![s] = "read"]
    /\ UNCHANGED <<store, channel, engineVars, locals, chat_memory, nruns,
                   sendOk, polls, got, readOk, mem0, dir0, saveFailed, initDone, afterInit,
                   src, consumed, wn, delivered, erased>>

\* except Exception as e: (the inner handler, for the read and for the clear)
PollFailed(s) ==
    IF LastAttempt(attempt[s])
    THEN /\ errors' = [errors EXCEPT ![s] = Append(@, "Error reading Scala response")]
         /\ response' = [response EXCEPT ![s] = Fallback]
         /\ pc' = [pc EXCEPT ![s] = "returned"]
         /\ UNCHANGED attempt
    ELSE /\ attempt' = [attempt EXCEPT ![s] = @ + 1]
         /\ pc' = [pc EXCEPT ![s] = "sleep"]
         /\ UNCHANGED <<errors, response>>

\* if scala_output:
GotReply(text) == text # <<>>

\* open(output_file, 'r'); scala_output = file.read().strip()
ReadOutput(s) ==
    /\ pc[s] = "read"
    /\ \/ /\ scala_output' = [scala_output EXCEPT ![s] = Strip(resp)]
          /\ got' = [got EXCEPT ![s] = IF @ = <<>> THEN Strip(resp) ELSE @]
          /\ readOk' = [readOk EXCEPT ![s] = TRUE]
          /\ src' = [src EXCEPT ![s] = IF GotReply(Strip(resp)) THEN wn ELSE @]
          /\ IF GotReply(Strip(resp))
             THEN /\ pc' = [pc EXCEPT ![s] = "clear"]
                  /\ UNCHANGED <<attempt, response, errors>>
             ELSE IF MoreAttempts(attempt[s])
             THEN /\ attempt' = [attempt EXCEPT ![s] = @ + 1]
                  /\ pc' = [pc EXCEPT ![s] = "sleep"]
                  /\ UNCHANGED <<response, errors>>
             ELSE /\ response' = [response EXCEPT ![s] = Fallback]
                  /\ pc' = [pc EXCEPT ![s] = "returned"]
                  /\ UNCHANGED <<attempt, errors>>
       \/ /\ PollFailed(s)
          /\ UNCHANGED <<scala_output, got, readOk, src>>
    /\ polls' = [polls EXCEPT ![s] = @ + 1]
    /\ UNCHANGED <<store, channel, engineVars, user_question, current_chat,
                   chat_memory, nruns, sendOk, waits, elapsed, mem0, dir0, saveFailed,
                   initDone, afterInit, consumed, wn, delivered, erased>>

\* A slip that would leave the reply in place (the file opened with 'a').
ClearedText_Kept == resp

\* scalaoutput.txt after open(output_file, 'w') and write('')
ClearedText == <<>>

\* open(output_file, 'w'); clear_file.write(''); return scala_output
ClearOutput(s) ==
    /\ pc[s] = "clear"
    /\ \/ /\ resp' = ClearedText
          /\ consumed' = TRUE
          /\ response' = [response EXCEPT ![s] = scala_output[s]]
          /\ pc' = [pc EXCEPT ![s] = "returned"]
          /\ delivered' = [delivered EXCEPT ![src[s]] = @ + 1]
          /\ erased' = IF GotReply(Strip(resp)) /\ wn # src[s]
                       THEN erased \cup {wn} ELSE erased
          /\ UNCHANGED <<attempt, errors>>
       \/ /\ PollFailed(s)
          /\ UNCHANGED <<resp, consumed, delivered, erased>>
    /\ src' = [src EXCEPT ![s] = 0]
    /\ UNCHANGED <<store, req, engineVars, user_question, current_chat,
                   scala_output, chat_memory, nruns, sendOk, waits, elapsed,
                   polls, got, readOk, mem0, dir0, saveFailed, initDone, afterInit, wn>>

\* A slip that would store the text last read instead of the value returned.
Exchange_LastRead(s) == [question |-> user_question[s], answer |-> scala_output[s]]

\* st.session_state.chat_memory.append({'question': ..., 'answer': response})
Exchange(s) == [question |-> user_question[s], answer |-> response[s]]

\* A slip that would leave the exchange out of the memory until the question
\* is saved.
MemoryAfterAsk_NotYet(s) == chat_memory[s]

\* st.session_state.chat_memory once the append of line 280 has run
MemoryAfterAsk(s) == Append(chat_memory[s], Exchange(s))

AppendMemory(s) ==
    /\ pc[s] = "returned"
    /\ chat_memory' = [chat_memory EXCEPT ![s] = MemoryAfterAsk(s)]
    /\ pc' = [pc EXCEPT ![s] = "save"]
    /\ UNCHANGED <<store, channel, engineVars, locals, history>>

\* A slip that would save the question without its line terminator.
SavedLine_NoTerminator(q) == <<q>>

\* user_question + '\n'
SavedLine(q) == Line(q)

\* open(conversations_dir + current_chat, 'a'); file.write(user_question + '\n')
\* Not inside any try: a failure ends the run with the exception.
SaveQuestion(s) ==
    /\ pc[s] = "save"
    /\ \/ /\ ValidName(current_chat[s])
          /\ files' = files \cup {current_chat[s][1]}
          /\ logs' = [logs EXCEPT ![current_chat[s][1]] = @ \o SavedLine(user_question[s])]
          /\ pc' = [pc EXCEPT ![s] = "idle"]
          /\ UNCHANGED saveFailed
       \/ /\ UNCHANGED <<files, logs>>
          /\ pc' = [pc EXCEPT ![s] = "raised_save"]
          /\ saveFailed' = TRUE
    /\ EndRun(s)
    /\ UNCHANGED <<dirExists, ptrExists, pointer, channel, engineVars,
                   chat_memory, nruns, dir0, initDone, consumed, wn,
                   delivered, erased>>

\* ------------------------------------------------------ the engine's steps
\* (a) observe new content in the request slot
EngineObserve ==
    /\ reqFresh
    /\ engine = ""
    /\ ParseRequest(req) # ""
    /\ engine' = ParseRequest(req)
    /\ reqFresh' = FALSE
    /\ UNCHANGED <<store, channel, pc, locals, chat_memory, history>>

\* (b) compute an answer, (c) write it to the response slot
EngineWrite ==
    /\ engine # ""
    /\ \E out \in EngineOutputs(engine) : resp' = out
    /\ engine' = ""
    /\ consumed' = FALSE
    /\ wn' = wn + 1
    /\ UNCHANGED <<store, req, reqFresh, pc, locals, chat_memory, nruns,
                   sendOk, waits, elapsed, polls, got, readOk, mem0, dir0, saveFailed, initDone,
                   afterInit, src, delivered, erased>>

\* ------------------------------------------------------------------- Next
Next ==
    \/ \E s \in Sessions : \E q \in Questions \cup {NoQuestion} : StartRun(s, q)
    \/ \E s \in Sessions : CheckDir(s)
    \/ \E s \in Sessions : MakeDirs(s)
    \/ \E s \in Sessions : CheckPointer(s)
    \/ \E s \in Sessions : OpenPointer(s)
    \/ \E s \in Sessions : WritePointer(s)
    \/ \E s \in Sessions : ListFiles(s)
    \/ \E s \in Sessions : CreateFirstLog(s)
    \/ \E s \in Sessions : ReadPointer(s)
    \/ \E s \in Sessions : Send(s)
    \/ \E s \in Sessions : Sleep(s)
    \/ \E s \in Sessions : ReadOutput(s)
    \/ \E s \in Sessions : ClearOutput(s)
    \/ \E s \in Sessions : AppendMemory(s)
    \/ \E s \in Sessions : SaveQuestion(s)
    \/ EngineObserve
    \/ EngineWrite

Spec == Init /\ [][Next]_vars

\* The deployment the design asks for: access serialized by mutual exclusion,
\* a run starts only when no other run is in progress.
SerialStartRun(s, q) ==
    /\ \A t \in Sessions : ~Running(t)
    /\ StartRun(s, q)

NextSerial ==
    \/ \E s \in Sessions : \E q \in Questions \cup {NoQuestion} : SerialStartRun(s, q)
    \/ \E s \in Sessions : CheckDir(s)
    \/ \E s \in Sessions : MakeDirs(s)
    \/ \E s \in Sessions : CheckPointer(s)
    \/ \E s \in Sessions : OpenPointer(s)
    \/ \E s \in Sessions : WritePointer(s)
    \/ \E s \in Sessions : ListFiles(s)
    \/ \E s \in Sessions : CreateFirstLog(s)
    \/ \E s \in Sessions : ReadPointer(s)
    \/ \E s \in Sessions : Send(s)
    \/ \E s \in Sessions : Sleep(s)
    \/ \E s \in Sessions : ReadOutput(s)
    \/ \E s \in Sessions : ClearOutput(s)
    \/ \E s \in Sessions : AppendMemory(s)
    \/ \E s \in Sessions : SaveQuestion(s)
    \/ EngineObserve
    \/ EngineWrite

SpecSerial == Init /\ [][NextSerial]_vars

\* ================================================================= claims
StartupPcs == {"chk_dir", "mk_dir", "chk_ptr", "mk_ptr", "wr_ptr", "list",
               "mk_log", "rd_ptr"}
AskPcs == {"send", "sleep", "read", "clear", "returned", "save"}

\* communicate_with_scala has returned in session s's run
Returned(s) == pc[s] \in {"returned", "save"}

\* C1: communicate_with_scala makes at most max_retries (3) polls of
\* scalaoutput.txt, each preceded by exactly one sleep of retry_delay; a call
\* that reached the poll loop and whose polls never read a non-empty reply
\* returns the fallback after exactly 3 sleeps (3 <= elapsed/retry_delay < 4)
\* and 3 polls, never a 4th.
C1_BoundedRetry ==
    \A s \in Sessions :
        /\ polls[s] <= max_retries
        /\ waits[s] = (IF pc[s] = "read" THEN polls[s] + 1 ELSE polls[s])
        /\ elapsed[s] = waits[s] * retry_delay
        /\ (Returned(s) /\ sendOk[s] /\ got[s] = <<>>) =>
              /\ response[s] = Fallback
              /\ waits[s] = 3
              /\ polls[s] = 3
              /\ elapsed[s] >= 3 * retry_delay
              /\ elapsed[s] < 4 * retry_delay

\* A request timed out: three sleeps, three polls, nothing read, fallback.
C1_Witness ==
    \E s \in Sessions :
        /\ pc[s] = "returned" /\ sendOk[s] /\ got[s] = <<>>
        /\ waits[s] = 3 /\ polls[s] = 3 /\ response[s] = Fallback
        /\ errors[s] = <<>>

\* C2: request() returns the first non-empty text any of its polls read
\* from scalaoutput.txt, whatever storage failures hit the other steps of
\* the call, a failure of the clearing write included.
C2_ReturnsFirstObtained ==
    \A s \in Sessions :
        (Returned(s) /\ got[s] # <<>>) => response[s] = got[s]

\* C3: with runs serialized, every answer in chat_memory that is not the
\* fallback is the engine's reply to the question it is stored with.
C3_AnswerMatchesQuestion ==
    \A s \in Sessions : \A i \in 1..Len(chat_memory[s]) :
        chat_memory[s][i].answer # Fallback =>
            chat_memory[s][i].answer = <<Ans(chat_memory[s][i].question)>>

\* C4: a poll that consumes a reply leaves scalaoutput.txt empty, and it stays
\* empty until the engine writes again: Send never writes it, only an engine
\* write puts text in it, and a poll made after a reply was consumed and
\* before the next engine write finds no reply.
C4_ConsumedStaysEmpty ==
    /\ [](consumed => resp = <<>>)
    /\ [][/\ \A s \in Sessions :
                /\ (pc[s] = "clear" /\ pc'[s] = "returned"
                        /\ response'[s] = scala_output[s]) => resp' = <<>>
                /\ (pc[s] = "send" /\ pc'[s] # "send") => resp' = resp
                /\ (consumed /\ pc[s] = "read" /\ pc'[s] # "read") =>
                        (pc'[s] # "clear" /\ got'[s] = got[s])
          /\ (resp' # resp /\ resp' # <<>>) => (engine # "" /\ engine' = "")
         ]_vars

\* A reply was consumed, and a later request was sent and polled once with
\* no engine write in between: the poll found nothing.
C4_Witness ==
    /\ consumed
    /\ \E s \in Sessions :
          /\ Len(chat_memory[s]) >= 1
          /\ chat_memory[s][Len(chat_memory[s])].answer # Fallback
          /\ pc[s] = "sleep" /\ sendOk[s] /\ polls[s] = 1 /\ got[s] = <<>>

\* C5: an ask appends exactly one exchange (question, returned value) at the
\* end of the session's chat_memory; the question is never empty; entries
\* already there are never removed, changed or reordered.
C5_MemoryAppendOnly ==
    /\ [](\A s \in Sessions :
            /\ \A i \in 1..Len(chat_memory[s]) :
                    chat_memory[s][i].question \in Questions
            /\ pc[s] \in (StartupPcs \cup AskPcs) \ {"save"} =>
                    chat_memory[s] = mem0[s]
            /\ pc[s] = "save" =>
                    chat_memory[s] =
                        mem0[s] \o <<[question |-> user_question[s],
                                      answer |-> response[s]]>>)
    /\ [][\A s \in Sessions :
             \/ chat_memory'[s] = chat_memory[s]
             \/ /\ pc[s] = "returned"
                /\ Len(chat_memory'[s]) = Len(chat_memory[s]) + 1
                /\ SubSeq(chat_memory'[s], 1, Len(chat_memory[s])) = chat_memory[s]
         ]_vars

\* A session's second ask has appended its exchange after the first one.
C5_Witness ==
    \E s \in Sessions :
        /\ pc[s] = "save"
        /\ Len(chat_memory[s]) = 2
        /\ chat_memory[s][1].answer # chat_memory[s][2].answer

\* C6: whatever the channel outcome, an ask ends only at the append to the
\* conversation file: the append comes after the exchange is in chat_memory,
\* and when it does not fail it extends the file named by the pointer value
\* the run read, by the question and a line terminator, once.
C6_QuestionSaved ==
    [][\A s \in Sessions :
          /\ (pc[s] \in AskPcs /\ ~Running(s)') => pc[s] = "save"
          /\ (pc[s] \in AskPcs \ {"save"} /\ pc'[s] # pc[s]) => logs' = logs
          /\ (pc[s] = "save" /\ pc'[s] = "idle") =>
                /\ Len(chat_memory[s]) = Len(mem0[s]) + 1
                /\ ValidName(current_chat[s])
                /\ logs' = [logs EXCEPT ![current_chat[s][1]] =
                                @ \o <<user_question[s], "\n">>]
                /\ current_chat[s][1] \in files'
      ]_vars

\* The engine has not answered the only request made so far: the run returned
\* the fallback after its polls, and its question is the last line of a
\* conversation file.
C6_Witness ==
    \E s \in Sessions : \E n \in files :
        /\ nruns = 1 /\ pc[s] = "idle" /\ resp = <<>> /\ ~consumed
        /\ (reqFresh \/ engine # "")
        /\ Len(chat_memory[s]) = 1
        /\ chat_memory[s][1].answer = Fallback
        /\ Len(logs[n]) >= 2
        /\ SubSeq(logs[n], Len(logs[n]) - 1, Len(logs[n])) =
              <<chat_memory[s][1].question, "\n">>

\* C7: conversation files are append-only: over every step of every session,
\* the contents of each file before the step are a prefix of its contents
\* after the step.
C7_LogsAppendOnly ==
    [][\A n \in LogNames : IsPrefix(logs[n], logs'[n])]_vars

\* C8: the startup block is idempotent: a run that starts after some run has
\* completed the startup block leaves the directory, the pointer, the set of
\* conversation files and their contents unchanged by its own startup block.
C8_StartupIdempotent ==
    [][\A s \in Sessions :
          (afterInit[s] /\ pc[s] \in StartupPcs /\ pc'[s] # pc[s]) =>
              UNCHANGED store
      ]_vars

\* A run started after an earlier run's ask has gone through its startup
\* block, the earlier question being in a conversation file.
C8_Witness ==
    \E s \in Sessions : \E n \in files :
        /\ afterInit[s] /\ pc[s] = "send"
        /\ Len(logs[n]) >= 2
        /\ logs[n][Len(logs[n]) - 1] \in Questions

\* C9: from a store with no conversations directory, the first run's startup
\* block leaves the directory, currentchat.txt holding chathistory_0.txt and
\* exactly one conversation file, chathistory_0.txt, empty; the run reads that
\* name, and its append leaves the file holding exactly its question.
C9_FreshStore ==
    (~dir0 /\ nruns = 1) =>
        /\ \A s \in Sessions :
              pc[s] \in AskPcs =>
                  /\ dirExists /\ ptrExists /\ pointer = <<Default>>
                  /\ files = {Default} /\ logs[Default] = <<>>
                  /\ current_chat[s] = <<Default>>
        /\ (initDone /\ \A s \in Sessions : pc[s] = "idle") =>
              /\ dirExists /\ ptrExists /\ pointer = <<Default>>
              /\ files = {Default}
              /\ \A s \in Sessions :
                    chat_memory[s] # <<>> =>
                        logs[Default] = <<chat_memory[s][1].question, "\n">>
              /\ (\A s \in Sessions : chat_memory[s] = <<>>) =>
                    logs[Default] = <<>>

\* The first run on a store without directory has asked and saved.
C9_Witness ==
    /\ ~dir0 /\ nruns = 1
    /\ \E s \in Sessions :
          /\ pc[s] = "idle" /\ Len(chat_memory[s]) = 1
          /\ logs[Default] = <<chat_memory[s][1].question, "\n">>

\* C10: no failure inside an ask ends the run with an uncaught exception.
C10_NoUnhandledFault ==
    \A s \in Sessions : pc[s] # "raised_save"

\* C11: when the append to the conversation file fails, the exchange
\* (question, returned value) is already the last element of the session's
\* chat_memory; the failing step leaves chat_memory as it is, and so does
\* everything until the session's next ask appends after it.
C11_MemoryKeptOnSaveFailure ==
    [][\A s \in Sessions :
          /\ (pc[s] = "save" /\ pc'[s] = "raised_save") =>
                /\ chat_memory'[s] = chat_memory[s]
                /\ Len(chat_memory[s]) = Len(mem0[s]) + 1
                /\ chat_memory'[s][Len(chat_memory'[s])] =
                        [question |-> user_question[s], answer |-> response[s]]
          /\ pc[s] = "raised_save" => IsPrefix(chat_memory[s], chat_memory'[s])
      ]_vars

\* The append failed after the engine's reply was returned: the exchange
\* with that reply is in chat_memory, its question in no conversation file.
C11_Witness ==
    \E s \in Sessions :
        /\ pc[s] = "raised_save"
        /\ Len(chat_memory[s]) = 1
        /\ chat_memory[s][1].answer = <<Ans(chat_memory[s][1].question)>>
        /\ \A n \in LogNames : \A i \in 1..Len(logs[n]) :
                logs[n][i] # chat_memory[s][1].question

\* C12: a request that read no reply shows the read error with its fallback
\* exactly when every one of its 3 reads of scalaoutput.txt raised; when some
\* read succeeded and found the file empty, the fallback comes with no error.
C12_ReadErrorIffAllUnreadable ==
    \A s \in Sessions :
        (Returned(s) /\ sendOk[s] /\ got[s] = <<>>) =>
            (errors[s] # <<>> <=> ~readOk[s])

\* C13: sessions share pyinput.txt and scalaoutput.txt with no serialization:
\* a send replaces whatever pyinput.txt holds, a request the engine has not
\* read yet included, so the file never holds more than the last request
\* sent; an ask can then return the engine's reply to the other session's
\* question (the state C13_Witness).
C13_SendOverwrites ==
    /\ [](req = <<>> \/ \E q \in Questions : req = Line(q))
    /\ [][\A s \in Sessions :
             (pc[s] = "send" /\ pc'[s] = "sleep") =>
                 /\ req' = Line(user_question[s])
                 /\ ParseRequest(req') = user_question[s]
         ]_vars

\* Two asks overlap; the request of s was replaced by the request of t
\* before the engine read it (the engine wrote once, is idle and nothing is
\* pending), and the request() of s returned the reply to t's question.
C13_Witness ==
    \E s \in Sessions : \E t \in Sessions \ {s} :
        /\ pc[s] = "returned" /\ sendOk[s] /\ sendOk[t]
        /\ user_question[s] # user_question[t]
        /\ response[s] = <<Ans(user_question[t])>>
        /\ req = Line(user_question[t])
        /\ wn = 1 /\ ~reqFresh /\ engine = ""

\* C14: with sessions polling scalaoutput.txt concurrently, the text of one
\* engine write is returned by at most one call of communicate_with_scala.
C14_DeliveredAtMostOnce ==
    \A w \in 1..MaxRuns : delivered[w] <= 1

\* C15: once currentchat.txt exists and holds a name, no step of any run
\* changes what it holds, and an append that succeeds goes to the conversation
\* file it names.
C15_PointerNeverChanges ==
    [][/\ (ptrExists /\ pointer # <<>>) => pointer' = pointer
       /\ \A s \in Sessions :
             (pc[s] = "save" /\ pc'[s] = "idle") =>
                 /\ ValidName(Strip(ReadLine(pointer)))
                 /\ logs'[Strip(ReadLine(pointer))[1]] =
                        logs[Strip(ReadLine(pointer))[1]] \o Line(user_question[s])
      ]_vars

\* C16: when the write of pyinput.txt fails, communicate_with_scala shows
\* "Error communicating with backend" and returns the fallback without a
\* sleep or a poll: the call leaves scalaoutput.txt as it is, and the ask
\* still appends the exchange (question, fallback) to chat_memory.
C16_SendFailureNoPoll ==
    /\ [](\A s \in Sessions :
            /\ (Returned(s) /\ ~sendOk[s]) =>
                  /\ polls[s] = 0 /\ waits[s] = 0 /\ ~readOk[s]
                  /\ response[s] = Fallback
                  /\ errors[s] = <<"Error communicating with backend">>
            /\ (pc[s] = "save" /\ ~sendOk[s]) =>
                  chat_memory[s][Len(chat_memory[s])] =
                      [question |-> user_question[s], answer |-> Fallback])
    /\ [][\A s \in Sessions :
             (pc[s] \in {"send", "returned"} /\ pc'[s] # pc[s] /\ ~sendOk'[s])
                 => resp' = resp
         ]_vars

\* The write of the request failed while a reply was in scalaoutput.txt:
\* the reply is still there and the exchange carries the fallback.
C16_Witness ==
    \E s \in Sessions :
        /\ pc[s] = "save" /\ ~sendOk[s] /\ polls[s] = 0
        /\ GotReply(Strip(resp))
        /\ chat_memory[s][Len(chat_memory[s])].answer = Fallback

\* C17: whatever the conversations directory held before, when a run has
\* gone through the startup block currentchat.txt exists and names a
\* conversation file that exists.
C17_PointerNamesExistingLog ==
    [][\A s \in Sessions :
          (pc[s] = "rd_ptr" /\ pc'[s] # "rd_ptr") =>
              /\ ptrExists
              /\ ValidName(Strip(ReadLine(pointer)))
              /\ Strip(ReadLine(pointer))[1] \in files
      ]_vars

\* C18: the clearing write of a poll erases only the text that poll read: an
\* engine reply erased from scalaoutput.txt by a clearing write has been
\* returned by some call, or was read by a poll that is about to return it.
C18_NoReplyErasedUnreturned ==
    \A w \in erased :
        \/ delivered[w] >= 1
        \/ \E s \in Sessions : pc[s] = "clear" /\ src[s] = w

\* The lines of a text, each without its terminator.
RECURSIVE SplitLines(_)
SplitLines(text) ==
    IF text = <<>> THEN <<>>
    ELSE LET n == Len(ReadLine(text))
             line == ReadLine(text)
         IN <<IF line[n] = "\n" THEN SubSeq(line, 1, n - 1) ELSE line>>
                \o SplitLines(SubSeq(text, n + 1, Len(text)))

\* The questions of a chat_memory, in order, each as a line.
QuestionLines(mem) == [i \in 1..Len(mem) |-> <<mem[i].question>>]

RECURSIVE IsSubsequence(_, _)
IsSubsequence(a, b) ==
    IF a = <<>> THEN TRUE
    ELSE IF b = <<>> THEN FALSE
    ELSE IF Head(a) = Head(b) THEN IsSubsequence(Tail(a), Tail(b))
    ELSE IsSubsequence(a, Tail(b))

RECURSIVE TotalAsks(_)
TotalAsks(S) ==
    IF S = {} THEN 0
    ELSE LET s == CHOOSE x \in S : TRUE
         IN Len(chat_memory[s]) + TotalAsks(S \ {s})

\* C19: on a store the startup block created, with no failed append, whenever
\* no run is in progress the questions of each session's chat_memory are a
\* subsequence of the lines of chathistory_0.txt, in order, and the file has
\* as many lines as asks were made in all sessions (so with one session
\* asking, its lines are exactly that session's questions).
C19_MemoryMatchesLog ==
    (~dir0 /\ ~saveFailed /\ \A s \in Sessions : ~Running(s)) =>
        /\ Len(SplitLines(logs[Default])) = TotalAsks(Sessions)
        /\ \A s \in Sessions :
              IsSubsequence(QuestionLines(chat_memory[s]),
                            SplitLines(logs[Default]))

====
